---------------------------- MODULE Spec2Model ----------------------------
(***************************************************************************)
(* Model of src/app.py: the stage performance calculator                   *)
(* perform_performance_calculation(params) and the caller around it        *)
(* (Spec), and the handlers of main that save a configuration to the       *)
(* database, reset it and calculate from what was saved, run by two        *)
(* browser sessions on the one database file (SpecDB).  In SpecDB a step   *)
(* is one transaction, or one file operation, of one session; init_db      *)
(* commits each of its tables on its own.                                  *)
(*                                                                         *)
(* Numbers.  Python floats are modelled as fixed-point reals: the integer  *)
(* x stands for the real x / Scale (three decimals), and every product,    *)
(* quotient and root is rounded down to that grid, as a float operation is *)
(* rounded to its own grid.  The one exception is a pressure in pascal,    *)
(* which is held in whole pascals.  A product p * x ** k is rounded once,  *)
(* as the float keeps the digits of x ** k that the grid would drop.       *)
(*                                                                         *)
(* A number is a record: cx says that it is a Python complex, im that its  *)
(* imaginary part is not zero, v is its value (its real part) where im is  *)
(* false.  The complex that a negative float raised to a non-integer power *)
(* gives is Cplx, whose value the model does not hold; arithmetic on it    *)
(* gives Cplx again and raises nothing, except that 0.0 times it is 0j and *)
(* its power 0 is 1+0j.  The == of the code is Eq: a complex x+0j is equal *)
(* to the float x.                                                         *)
(***************************************************************************)
EXTENDS Integers, Sequences, FiniteSets, TLC

VARIABLES
    pc,             \* "idle" | "loop" | "done" | "error" | "kept": position of the call
    err,            \* "none" or the name of the exception that ended the call
    params,         \* the params dict as the callee sees it (NoParams when idle)
    arg,            \* the value of the params dict when the caller passed it
    m_dot,          \* local m_dot
    n,              \* local n (after the n <= 0 test)
    PR_base,        \* local PR_base
    P_in_bar,       \* local P_in_bar (line 364)
    T_in_K,         \* local T_in_K, the running temperature
    total_W_kW,     \* local total_W_kW
    throws_by_id,   \* local throws_by_id
    i,              \* loop variable: the stage the next iteration computes
    SACE,           \* locals SACE, VVCP, SAHE of the last iteration that ran
    VVCP,
    SAHE,
    stage_details,  \* local stage_details
    outputs,        \* the dict returned (NoOutputs until the call returns)
    mem,            \* caller's record of an earlier call: NoMem or [params, outputs]
    gas_component,  \* table gas_component: the rows, each with its id
    sqlite_sequence, \* the AUTOINCREMENT counter of gas_component: the last id an
                    \* INSERT was given, whether or not its row was stored
    gas_mixture,    \* table gas_mixture: the rows in id order, the id of a row is its index
    gas_mixture_component, \* table gas_mixture_component: the rows in insertion order
    frame,          \* table frame: the rows in id order, the id of a row is its index
    throw,          \* table throw, likewise
    stage,          \* table stage, likewise
    stage_throw,    \* table stage_throw: the rows in insertion order
    actuator,       \* table actuator: the rows in id order
    file,           \* the database file: whether it exists, and how many of its tables
    hpc,            \* per session: the step its script run is at ("idle": run over)
    herr,           \* per session: the exception that ended its last run, or "none"
    local,          \* per session: the locals of its handler
    overlap,        \* history: some handler has started while another was running
    runs,           \* history: the number of buttons pressed so far
    ui              \* history: what the last save handler was given, and how it ended

vars == <<pc, err, params, arg, m_dot, n, PR_base, P_in_bar, T_in_K, total_W_kW,
          throws_by_id, i, SACE, VVCP, SAHE, stage_details, outputs, mem,
          gas_component, sqlite_sequence, gas_mixture, gas_mixture_component,
          frame, throw, stage, stage_throw, actuator, file, hpc, herr, local,
          overlap, runs, ui>>

\* the tables of the gas composition
gastables == <<gas_component, sqlite_sequence, gas_mixture, gas_mixture_component>>

\* the tables of the database file
tables == <<gas_component, sqlite_sequence, gas_mixture, gas_mixture_component,
            frame, throw, stage, stage_throw, actuator>>

\* the database, the sessions and the history
dbvars == <<gas_component, sqlite_sequence, gas_mixture, gas_mixture_component,
            frame, throw, stage, stage_throw, actuator, file, hpc, herr, local,
            overlap, runs, ui>>

---------------------------------------------------------------------------
(* Bounds of the model *)

MaxStages == 3
MaxMapped == 2

---------------------------------------------------------------------------
(* Fixed-point reals *)

Scale == 10 * 100

\* the float x
R(x) == [cx |-> FALSE, im |-> FALSE, v |-> x]
\* the complex x + 0j
Complex(x) == [cx |-> TRUE, im |-> FALSE, v |-> x]
\* a complex with an imaginary part other than zero
Cplx == [cx |-> TRUE, im |-> TRUE, v |-> 0]
\* the number x, complex or float as c says
Num(c, x) == [cx |-> c, im |-> FALSE, v |-> x]

\* a == b of two numbers
Eq(a, b) == a.im = b.im /\ a.v = b.v

\* a * b where one of the two is Cplx: 0j when the other is zero
TimesCplx(a, b) ==
    IF (~a.im /\ a.v = 0) \/ (~b.im /\ b.v = 0) THEN Complex(0) ELSE Cplx

Max(a, b) == IF a >= b THEN a ELSE b
Min(a, b) == IF a <= b THEN a ELSE b
Abs(a) == IF a < 0 THEN -a ELSE a

\* a * b on the grid; the product is split so that no intermediate leaves 32 bits
MulFx(a, b) == (a \div Scale) * b + ((a % Scale) * b) \div Scale

RECURSIVE FracDigits(_, _, _)
\* the decimal digits of r / den (0 <= r < den) down to the grid, by long division
FracDigits(r, den, s) ==
    IF s = 1 THEN 0
    ELSE ((r * 10) \div den) * (s \div 10) + FracDigits((r * 10) % den, den, s \div 10)

\* a / b on the grid, b # 0
DivFx(a, b) ==
    LET num == IF b < 0 THEN -a ELSE a
        den == Abs(b)
    IN  (num \div den) * Scale + FracDigits(num % den, den, Scale)

RECURSIVE GCD(_, _)
GCD(a, b) == IF b = 0 THEN a ELSE GCD(b, a % b)

RECURSIVE PowInt(_, _)
\* x ** k for an integer k >= 0, by repeated multiplication (0 ** 0 is 1)
PowInt(x, k) == IF k = 0 THEN Scale ELSE MulFx(PowInt(x, k - 1), x)

\* one more factor r >= 1 on a running product a, left alone once a is above cap
CapMul(a, r, cap) == IF a > cap THEN a ELSE MulFx(a, r)

RECURSIVE PowCap(_, _, _)
\* r ** k for r >= 1 as PowInt computes it, while it is <= cap; a value above cap
\* says only that r ** k is above cap (the powers of r >= 1 do not decrease)
PowCap(r, k, cap) == IF k = 0 THEN Scale ELSE CapMul(PowCap(r, k - 1, cap), r, cap)

RECURSIVE Bisect(_, _, _, _)
\* the largest r in lo..hi with r ** q <= x, for 1 <= lo and lo ** q <= x
Bisect(lo, hi, x, q) ==
    IF lo >= hi THEN lo
    ELSE LET mid == (lo + hi + 1) \div 2
         IN  IF PowCap(mid, q, x) <= x THEN Bisect(mid, hi, x, q)
                                      ELSE Bisect(lo, mid - 1, x, q)

\* x ** (1/q) for x >= 1, q >= 1, rounded down
RootAbove(x, q) == Bisect(Scale, Scale + (x - Scale) \div q + 1, x, q)

\* 1 / r rounded down, for r the rounded-down q-th root of y: the root itself lies
\* in [r, r + 1), and is r only when r ** q is y
RecipRoot(r, q, y) == DivFx(Scale, IF PowCap(r, q, y) = y THEN r ELSE r + 1)

\* x ** (1/q) for x >= 0, q >= 1.  The grid is too coarse to search a root below 1
\* by its powers, so for 0 < x < 1 the root is 1 / (1/x) ** (1/q)
RootFx(x, q) ==
    IF x = 0 THEN 0
    ELSE IF x >= Scale THEN RootAbove(x, q)
    ELSE LET y == DivFx(Scale, x)
         IN  RecipRoot(RootAbove(y, q), q, y)

\* the largest power kept exact before a root is taken
PowLimit == Scale * Scale

\* float ** float with the exponent p/q (q > 0) raises ZeroDivisionError
\* exactly when the base is zero and the exponent negative
PowFails(x, p, q) == ~x.im /\ x.v = 0 /\ p < 0

\* y ** (a/q) for y >= 1, a >= 1, q >= 2: the root of the power while the power is
\* within PowLimit, the power of the root beyond it; exact says the value is not rounded
PowAbove(y, a, q) ==
    LET yp == PowCap(y, a, PowLimit)
    IN  IF yp <= PowLimit
        THEN LET r == RootAbove(yp, q)
             IN  [v |-> r, exact |-> PowCap(r, q, yp) = yp]
        ELSE [v |-> PowInt(RootAbove(y, q), a), exact |-> FALSE]

\* float ** float, exponent pp/qq with qq > 0, where PowFails is false
Pow(x, pp, qq) ==
    LET g == GCD(Abs(pp), qq)
        p == pp \div g
        q == qq \div g
    IN  IF x.im THEN (IF p = 0 THEN Complex(Scale) ELSE Cplx)
        ELSE IF q = 1
             THEN \* an integer-valued exponent keeps a negative base real
                  IF p >= 0 THEN Num(x.cx, PowInt(x.v, p))
                            ELSE Num(x.cx, DivFx(Scale, PowInt(x.v, -p)))
             ELSE IF x.v < 0 THEN Cplx
             ELSE IF x.v = 0 THEN Num(x.cx, 0)
             ELSE \* a base below 1 is raised as the reciprocal of a base above 1
                  LET above == x.v >= Scale
                      y == IF above THEN x.v ELSE DivFx(Scale, x.v)
                      r == PowAbove(y, Abs(p), q)
                  IN  IF (p > 0) = above THEN Num(x.cx, r.v)
                      ELSE Num(x.cx, DivFx(Scale, IF r.exact THEN r.v ELSE r.v + 1))

Add(a, b) == IF a.im \/ b.im THEN Cplx ELSE Num(a.cx \/ b.cx, a.v + b.v)
Sub(a, b) == IF a.im \/ b.im THEN Cplx ELSE Num(a.cx \/ b.cx, a.v - b.v)
Mul(a, b) == IF a.im \/ b.im THEN TimesCplx(a, b)
             ELSE Num(a.cx \/ b.cx, MulFx(a.v, b.v))
\* a / b, b not zero
Div(a, b) == IF a.im THEN Cplx
             ELSE IF b.im THEN (IF a.v = 0 THEN Complex(0) ELSE Cplx)
             ELSE Num(a.cx \/ b.cx, DivFx(a.v, b.v))

RECURSIVE FracTimes(_, _)
\* the digits f after the point (each a group of the grid's digits) times the whole
\* number m >= 0: the digits of the product and what it carries before the point
FracTimes(f, m) ==
    IF f = <<>> THEN [carry |-> 0, f |-> <<>>]
    ELSE LET rest == FracTimes(Tail(f), m)
             t == Head(f) * m + rest.carry
         IN  [carry |-> t \div Scale, f |-> <<t % Scale>> \o rest.f]

\* x * m on the grid with no digit dropped, for x the whole number hi of grid steps
\* and the digits f below the grid, and the grid value m >= 0
ExactTimes(x, m) ==
    LET fm == FracTimes(x.f, m)
        low == (x.hi % Scale) * m + fm.carry
    IN  [hi |-> (x.hi \div Scale) * m + low \div Scale, f |-> <<low % Scale>> \o fm.f]

RECURSIVE ExactTimesPower(_, _, _)
\* x * m ** k with no digit dropped, k >= 0
ExactTimesPower(x, m, k) ==
    IF k = 0 THEN x ELSE ExactTimesPower(ExactTimes(x, m), m, k - 1)

\* a * x ** k for an integer k >= 0, rounded down once
TimesPower(a, x, k) ==
    IF a.im \/ x.im THEN Mul(a, Pow(x, k, 1))
    ELSE LET sign == IF x.v < 0 /\ k % 2 = 1 THEN -1 ELSE 1
         IN  Num(a.cx \/ x.cx,
                 ExactTimesPower([hi |-> sign * a.v, f |-> <<>>], Abs(x.v), k).hi)

---------------------------------------------------------------------------
(* Program constants (fixed-point, x / Scale) *)

gamma == 1300
cp_kJ_per_kgK == 2000
EtaBase == 650
EtaSACE == 150
EtaVVCP == 50
EtaSAHE == 100
EtaMin == 650
EtaMax == 920
PolyBase == 750
PolySACE == 80
PolyVVCP == 20
PolySAHE == 30
PolyMin == 600
PolyMax == 950
Hundred == 100000
Thousand == 1000000
KelvinOffset == 273150
\* 1e-6 is below the grid; it is held as the smallest positive grid value
EtaGuard == 1
\* pascals per bar (a whole number, not on the grid)
PaPerBar == 100000
DefaultInletPressureBar == 2000
DefaultInletTemperatureC == 25000

UNIT_OPTIONS == {"SI", "Metric"}

clampNoCeiling(x, a, b) == Max(a, x)

\* lines 18-19
clamp(x, a, b) == Max(a, Min(x, b))

---------------------------------------------------------------------------
(* The params a caller may pass *)

NoParams == "none"
NoOutputs == "none"
NoMem == <<>>
NoSave ==
    [kind |-> "none", throws |-> <<>>, stage_to_throw |-> <<>>, complete |-> TRUE,
     err |-> "none"]

\* the browser sessions: each runs main, on the one file DB_PATH
Sessions == {"A", "B"}

\* no configuration held by a handler
NoConfig ==
    [kind |-> "none", rpm |-> 0, stroke_m |-> 0, throws |-> <<>>, stage_to_throw |-> <<>>,
     actuator |-> [power_available_kW |-> 0, derate_percent |-> 0,
                   air_cooler_fraction |-> 0]]

\* lines 66-160: the tables of init_db, in the order it creates them
TableOrder ==
    << "gas_component", "gas_mixture", "gas_mixture_component", "frame", "throw", "stage",
       "stage_throw", "actuator", "process_inputs", "outputs_ariel7" >>

\* no file at DB_PATH
NoFile == [exists |-> FALSE, made |-> 0]

\* a file that holds the first made tables of init_db holds the table name
Has(made, name) == \E k \in 1..made : TableOrder[k] = name

\* the connection of a handler is on the file, not on a file removed under it
Live == [live |-> TRUE, made |-> 0, throw |-> <<>>, stage |-> <<>>, stage_throw |-> <<>>,
         actuator |-> <<>>]

\* the locals of a script run that is in no handler
IdleLocal ==
    [after |-> "idle", cfg |-> NoConfig, unit |-> "SI", n_stages |-> 0,
     component_ids |-> <<>>, mixture_id |-> 0, frame_id |-> 0,
     row |-> [rpm |-> 0, stroke_m |-> 0, n_throws |-> 0],
     throws_list |-> <<>>, stage_mapping |-> <<>>, conn |-> Live]

MapAbsent == [kind |-> "absent", ids |-> <<>>]
MapNone == [kind |-> "none", ids |-> <<>>]
MapId(t) == [kind |-> "id", ids |-> <<t>>]
MapTuple(ts) == [kind |-> "tuple", ids |-> ts]

Throw(id, vvcp, sace, sahe) ==
    [throw_id |-> id, throw_number |-> id, bore_m |-> 80, clearance_m |-> 2,
     VVCP |-> vvcp, SACE |-> sace, SAHE |-> sahe]

ThrowLists ==
    { <<>>,
      << Throw(1, 90000, 80000, 60000) >>,
      << Throw(1, 90000, 80000, 60000), Throw(2, 0, 250000, 100000) >>,
      << Throw(1, 200000, -50000, 0), Throw(2, 0, 250000, 100000) >>,
      << Throw(1, 0, 100000, 100000), Throw(1, 90000, 80000, 60000) >> }

MapValues ==
    { MapAbsent, MapNone, MapId(1), MapId(2), MapId(9),
      MapTuple(<<1, 2>>), MapTuple(<<1>>) }

StageMappings == [1..MaxMapped -> MapValues]

\* the empty dict: no stage has a key
EmptyMapping == [s \in 1..MaxMapped |-> MapAbsent]
\* the mapping of the example data, {1: 1, 2: 2, 3: 3}
DirectMapping == << MapId(1), MapId(2), MapId(3) >>

Actuator == [power_kW |-> 250000, derate |-> 5000, air_cooler |-> 25000]

\* the throws and stage mapping of a params dict
WithThrows(numbers, throws, mapping) ==
    [ unit_system |-> numbers.unit_system,
      mass_flow_kg_s |-> numbers.mass_flow_kg_s,
      inlet_pressure_pa |-> numbers.inlet_pressure_pa,
      inlet_temperature_K |-> numbers.inlet_temperature_K,
      n_stages |-> numbers.n_stages,
      PR_total |-> numbers.PR_total,
      rpm |-> 900000,
      stroke_m |-> 120,
      throws |-> throws,
      stage_mapping |-> mapping,
      actuator |-> Actuator ]

ProcessNumbers ==
    [ unit_system : UNIT_OPTIONS,
      mass_flow_kg_s : {-12000, 0, 12000},
      inlet_pressure_pa : {-200000, 0, 6000000},
      inlet_temperature_K : {-10000, 0, 350000},
      n_stages : -1..MaxStages,
      PR_total : {-2500, 0, 500, 1000, 2500} ]

\* every combination of the process numbers, with no throws and with one throw per stage
NumericParams ==
    { WithThrows(x, <<>>, EmptyMapping) : x \in ProcessNumbers }
    \cup { WithThrows(x, << Throw(1, 90000, 80000, 60000), Throw(2, 0, 250000, 100000) >>,
                      DirectMapping) : x \in ProcessNumbers }

\* every throws list and stage mapping, at the process conditions of main
MainNumbers ==
    [ unit_system |-> "SI", mass_flow_kg_s |-> 12000, inlet_pressure_pa |-> 6000000,
      inlet_temperature_K |-> 298150, n_stages |-> MaxStages, PR_total |-> 2500 ]

MappingParams ==
    { WithThrows(MainNumbers, ts, mp) :
        ts \in ThrowLists, mp \in StageMappings \cup {DirectMapping} }

\* one throw with SACE 80, VVCP 90, SAHE 60 assigned to every stage, for every stage count
ScenarioMapping == [s \in 1..MaxStages |-> MapId(1)]

ScenarioParams ==
    { WithThrows([MainNumbers EXCEPT !.n_stages = k], << Throw(1, 90000, 80000, 60000) >>,
                 ScenarioMapping) : k \in 1..MaxStages }

ParamSpace == NumericParams \cup MappingParams \cup ScenarioParams

OtherActuator == [power_kW |-> 1000, derate |-> 50000, air_cooler |-> 0]

\* the dict p with the other unit system and nothing else changed
UnitVariants(p) ==
    { [p EXCEPT !.unit_system = u] : u \in UNIT_OPTIONS \ {p.unit_system} }

\* the dict p with another stroke, actuator, and bore and clearance of its throws
GeometryVariants(p) ==
    { [p EXCEPT !.stroke_m = s, !.actuator = a,
                !.throws = [k \in DOMAIN @ |-> [@[k] EXCEPT !.bore_m = b, !.clearance_m = c]]] :
        s \in {120, 500}, a \in {Actuator, OtherActuator}, b \in {80, 200}, c \in {2, 10} }
      \ {p}

Variants(p) == UnitVariants(p) \cup GeometryVariants(p)

---------------------------------------------------------------------------
(* perform_performance_calculation *)

ClampStagesNone(k) == k

ClampStagesStrict(k) == IF k < 0 THEN 1 ELSE k

\* lines 347-348
ClampStages(k) == IF k <= 0 THEN 1 ELSE k

\* line 349: PR_total ** (1.0 / n); 1.0 / n raises ZeroDivisionError when n = 0
StageRatioFails(pr, k) == k = 0 \/ PowFails(R(pr), IF k < 0 THEN -1 ELSE 1, Abs(k))

StageRatioArithmetic(pr, k) == R(DivFx(pr, k * Scale))

\* line 349
StageRatio(pr, k) == Pow(R(pr), IF k < 0 THEN -1 ELSE 1, Abs(k))

\* lines 330-343: the inlet pressure in whole pascals
InletPressurePa(p) ==
    IF p.unit_system = "SI" THEN p.inlet_pressure_pa
    ELSE (DefaultInletPressureBar * PaPerBar) \div Scale

\* lines 330-343: the inlet temperature in kelvin
InletTemperatureK(p) ==
    IF p.unit_system = "SI" THEN p.inlet_temperature_K
    ELSE DefaultInletTemperatureC + KelvinOffset

\* line 364: P_in_pa / 1e5, from whole pascals to bar on the grid
PaToBar(pa) == pa \div (PaPerBar \div Scale)

\* lines 359-361: the last throw of the list with an id is the one indexed
ThrowsById(throws) ==
    [ id \in { throws[k].throw_id : k \in 1..Len(throws) } |->
        LET last == CHOOSE k \in 1..Len(throws) :
                        /\ throws[k].throw_id = id
                        /\ \A j \in 1..Len(throws) : throws[j].throw_id = id => j <= k
        IN  throws[last] ]

MappingGetFirst(mapping, s) ==
    IF s \in DOMAIN mapping /\ mapping[s].kind # "absent" THEN mapping[s] ELSE MapId(1)

\* line 371: stage_mapping.get(i)
MappingGet(mapping, s) ==
    IF s \in DOMAIN mapping /\ mapping[s].kind # "absent" THEN mapping[s] ELSE MapNone

\* line 372: throw_id is not None and throw_id in throws_by_id
Resolves(tid, byid) == tid.kind = "id" /\ tid.ids[1] \in DOMAIN byid

StagePercentagesFallback(mapping, byid, s) ==
    LET tid == MappingGet(mapping, s)
    IN  IF tid.kind = "id" /\ DOMAIN byid # {}
        THEN LET th == byid[IF tid.ids[1] \in DOMAIN byid THEN tid.ids[1]
                            ELSE CHOOSE x \in DOMAIN byid : TRUE]
             IN  [SACE |-> th.SACE, VVCP |-> th.VVCP, SAHE |-> th.SAHE]
        ELSE [SACE |-> 0, VVCP |-> 0, SAHE |-> 0]

\* lines 371-380: the three percentages of stage s
StagePercentages(mapping, byid, s) ==
    LET tid == MappingGet(mapping, s)
    IN  IF Resolves(tid, byid)
        THEN LET th == byid[tid.ids[1]]
             IN  [SACE |-> th.SACE, VVCP |-> th.VVCP, SAHE |-> th.SAHE]
        ELSE [SACE |-> 0, VVCP |-> 0, SAHE |-> 0]

EtaRawSwapped(sace, vvcp, sahe) ==
    EtaBase + MulFx(EtaSACE, DivFx(vvcp, Hundred))
            - MulFx(EtaVVCP, DivFx(sace, Hundred))
            + MulFx(EtaSAHE, DivFx(sahe, Hundred))

\* line 383
EtaRaw(sace, vvcp, sahe) ==
    EtaBase + MulFx(EtaSACE, DivFx(sace, Hundred))
            - MulFx(EtaVVCP, DivFx(vvcp, Hundred))
            + MulFx(EtaSAHE, DivFx(sahe, Hundred))

\* lines 383-384
EtaIsent(sace, vvcp, sahe) == clamp(EtaRaw(sace, vvcp, sahe), EtaMin, EtaMax)

\* lines 387-388
EtaPoly(sace, vvcp, sahe) ==
    clamp(PolyBase + MulFx(DivFx(sace, Hundred), PolySACE)
                   - MulFx(DivFx(vvcp, Hundred), PolyVVCP)
                   + MulFx(DivFx(sahe, Hundred), PolySAHE), PolyMin, PolyMax)

\* line 392: (gamma - 1.0) / gamma as the exponent of PR_base
IsentropicFactor(pr) == Pow(pr, gamma - Scale, gamma)

AccumulateOverwrite(total, w) == w

\* line 398: total_W_kW += W_stage_kW
Accumulate(total, w) == Add(total, w)

\* line 414: the running temperature handed to the next stage
NextInletTemperature(t_in, t_out) == t_out

\* line 421: the temperature the report calls the inlet temperature
ReportInletTemperature(t) == Sub(t, R(KelvinOffset))

\* line 367: the inlet pressure of stage s, P_in_bar * (PR_base ** (i - 1))
StageInletPressure(p_in, pr, s) == TimesPower(p_in, pr, s - 1)

\* line 368: the outlet pressure of a stage
StageOutletPressure(p_in_i, pr) == Mul(p_in_i, pr)

\* lines 391-393: T_out_actual_K of a stage with inlet temperature t
OutletTemperature(t, pr, eta) ==
    LET T_out_isentropic_K == Mul(t, IsentropicFactor(pr))
    IN  Add(t, Div(Sub(T_out_isentropic_K, t), R(Max(eta, EtaGuard))))

StagePowerSwept(mdot, t, t_out) ==
    Div(Mul(Mul(Mul(mdot, R(cp_kJ_per_kgK)), Sub(t_out, t)), R(params.stroke_m)), R(Thousand))

\* lines 394-397: W_stage_kW
StagePower(mdot, t, t_out) ==
    Div(Mul(Mul(mdot, R(cp_kJ_per_kgK)), Sub(t_out, t)), R(Thousand))

\* lines 400-410: the dict one iteration appends for stage s
StageEntry(s, pct, t, t_out) ==
    LET P_in_bar_i == StageInletPressure(P_in_bar, PR_base, s)
    IN  [ stage |-> s,
          P_in_bar |-> P_in_bar_i,
          P_out_bar |-> StageOutletPressure(P_in_bar_i, PR_base),
          PR |-> PR_base,
          T_in_C |-> Sub(t, R(KelvinOffset)),
          T_out_C |-> Sub(t_out, R(KelvinOffset)),
          poly_eff |-> EtaPoly(pct.SACE, pct.VVCP, pct.SAHE),
          isentropic_eff |-> EtaIsent(pct.SACE, pct.VVCP, pct.SAHE),
          shaft_power_kW |-> StagePower(m_dot, t, t_out) ]

\* lines 427-438: a stage of the 'a Ariel7 compatible' block
ArielStage(sd) ==
    [ stage_number |-> sd.stage,
      P_in_bar |-> sd.P_in_bar,
      P_out_bar |-> sd.P_out_bar,
      PR |-> sd.PR,
      T_in_C |-> sd.T_in_C,
      T_out_C |-> sd.T_out_C,
      polytropic_efficiency |-> sd.poly_eff,
      isentropic_efficiency |-> sd.isentropic_eff,
      shaft_power_kW |-> sd.shaft_power_kW ]

\* lines 417-442: the dict returned
Report ==
    [ frame_rpm |-> params.rpm,
      mass_flow_kg_s |-> m_dot,
      inlet_pressure_bar |-> P_in_bar,
      inlet_temperature_C |-> ReportInletTemperature(T_in_K),
      n_stages |-> n,
      total_shaft_power_kW |-> total_W_kW,
      stage_details |-> stage_details,
      ariel7_compatible |->
        [ frame_rpm |-> params.rpm,
          stages |-> [ k \in 1..Len(stage_details) |-> ArielStage(stage_details[k]) ],
          total_shaft_power_kW |-> total_W_kW ] ]

\* lines 324-361 only read params: the dict after them
ParamsAfterEntry(p) == p

ParamsAfterStagePop(p, s) ==
    [p EXCEPT !.stage_mapping = [k \in DOMAIN @ |-> IF k = s THEN MapAbsent ELSE @[k]]]

\* line 371 reads the mapping with .get: the dict after an iteration
ParamsAfterStage(p, s) == p

---------------------------------------------------------------------------
(* The state machine *)

Init ==
    /\ pc = "idle"
    /\ err = "none"
    /\ params = NoParams
    /\ arg = NoParams
    /\ m_dot = R(0)
    /\ n = 0
    /\ PR_base = R(0)
    /\ P_in_bar = R(0)
    /\ T_in_K = R(0)
    /\ total_W_kW = R(0)
    /\ throws_by_id = <<>>
    /\ i = 0
    /\ SACE = 0
    /\ VVCP = 0
    /\ SAHE = 0
    /\ stage_details = <<>>
    /\ outputs = NoOutputs
    /\ mem = NoMem
    /\ gas_component = <<>>
    /\ sqlite_sequence = 0
    /\ gas_mixture = <<>>
    /\ gas_mixture_component = <<>>
    /\ frame = <<>>
    /\ throw = <<>>
    /\ stage = <<>>
    /\ stage_throw = <<>>
    /\ actuator = <<>>
    /\ file = NoFile
    /\ hpc = [s \in Sessions |-> "idle"]
    /\ herr = [s \in Sessions |-> "none"]
    /\ local = [s \in Sessions |-> IdleLocal]
    /\ overlap = FALSE
    /\ runs = 0
    /\ ui = NoSave

\* lines 324-364: the body up to the loop, on the dict p
Entry(p) ==
    LET k == ClampStages(p.n_stages)
    IN  /\ params' = ParamsAfterEntry(p)
        /\ m_dot' = R(p.mass_flow_kg_s)
        /\ n' = k
        /\ T_in_K' = R(InletTemperatureK(p))
        /\ P_in_bar' = R(PaToBar(InletPressurePa(p)))
        /\ total_W_kW' = R(0)
        /\ stage_details' = <<>>
        /\ i' = 1
        /\ outputs' = NoOutputs
        /\ SACE' = 0
        /\ VVCP' = 0
        /\ SAHE' = 0
        /\ UNCHANGED mem
        /\ IF StageRatioFails(p.PR_total, k)
           THEN /\ pc' = "error"
                /\ err' = "ZeroDivisionError"
                /\ UNCHANGED <<PR_base, throws_by_id>>
           ELSE /\ pc' = "loop"
                /\ err' = "none"
                /\ PR_base' = StageRatio(p.PR_total, k)
                /\ throws_by_id' = ThrowsById(p.throws)

\* a caller builds a params dict and calls
Call(p) ==
    /\ pc = "idle"
    /\ arg' = p
    /\ Entry(p)
    /\ UNCHANGED dbvars

\* a caller calls again with the dict it passed before
CallAgain ==
    /\ pc = "kept"
    /\ UNCHANGED arg
    /\ Entry(params)
    /\ UNCHANGED dbvars

\* a caller calls with a copy of the dict it passed before, changed in its unit
\* system or in its mechanical geometry only
CallVariant ==
    /\ pc = "kept"
    /\ \E q \in Variants(arg) :
          /\ arg' = q
          /\ Entry(q)
    /\ UNCHANGED dbvars

\* lines 365-414: one iteration of the loop
Stage ==
    /\ pc = "loop"
    /\ i <= n
    /\ \E pct \in {StagePercentages(params.stage_mapping, throws_by_id, i)} :
       \E T_out_actual_K \in {OutletTemperature(T_in_K, PR_base,
                                               EtaIsent(pct.SACE, pct.VVCP, pct.SAHE))} :
           /\ SACE' = pct.SACE
           /\ VVCP' = pct.VVCP
           /\ SAHE' = pct.SAHE
           /\ total_W_kW' = Accumulate(total_W_kW, StagePower(m_dot, T_in_K, T_out_actual_K))
           /\ stage_details' = Append(stage_details, StageEntry(i, pct, T_in_K, T_out_actual_K))
           /\ T_in_K' = NextInletTemperature(T_in_K, T_out_actual_K)
    /\ params' = ParamsAfterStage(params, i)
    /\ i' = i + 1
    /\ UNCHANGED <<pc, err, arg, m_dot, n, PR_base, P_in_bar, throws_by_id, outputs, mem>>
    /\ UNCHANGED dbvars

\* lines 416-444: the loop is over, the report is built and returned
Return ==
    /\ pc = "loop"
    /\ i > n
    /\ outputs' = Report
    /\ pc' = "done"
    /\ UNCHANGED <<err, params, arg, m_dot, n, PR_base, P_in_bar, T_in_K, total_W_kW,
                   throws_by_id, i, SACE, VVCP, SAHE, stage_details, mem>>
    /\ UNCHANGED dbvars

\* the params whose report a caller keeps for a later comparison
KeptParams ==
    { p \in MappingParams :
        /\ p.throws = << Throw(1, 90000, 80000, 60000), Throw(2, 0, 250000, 100000) >>
        /\ p.stage_mapping \in {EmptyMapping, DirectMapping} }

\* the caller keeps the report it was handed, and the dict it passed
Keep ==
    /\ pc = "done"
    /\ mem = NoMem
    /\ arg \in KeptParams
    /\ mem' = << [params |-> arg, outputs |-> outputs] >>
    /\ pc' = "kept"
    /\ UNCHANGED <<err, params, arg, m_dot, n, PR_base, P_in_bar, T_in_K, total_W_kW,
                   throws_by_id, i, SACE, VVCP, SAHE, stage_details, outputs>>
    /\ UNCHANGED dbvars

\* the caller is done with the call: the frame and the report are dropped, and the
\* script run of a session that called from its handler is over (lines 757-784)
Discard ==
    /\ pc \in {"done", "error", "kept"}
    /\ pc' = "idle"
    /\ err' = "none"
    /\ params' = NoParams
    /\ arg' = NoParams
    /\ m_dot' = R(0)
    /\ n' = 0
    /\ PR_base' = R(0)
    /\ P_in_bar' = R(0)
    /\ T_in_K' = R(0)
    /\ total_W_kW' = R(0)
    /\ throws_by_id' = <<>>
    /\ i' = 0
    /\ SACE' = 0
    /\ VVCP' = 0
    /\ SAHE' = 0
    /\ stage_details' = <<>>
    /\ outputs' = NoOutputs
    /\ hpc' = [s \in Sessions |-> IF hpc[s] = "calc_run" THEN "idle" ELSE hpc[s]]
    /\ herr' = [s \in Sessions |-> IF hpc[s] = "calc_run" THEN err ELSE herr[s]]
    /\ UNCHANGED mem
    /\ UNCHANGED <<tables, file, local, overlap, runs, ui>>

Next ==
    \/ \E p \in ParamSpace : Call(p)
    \/ CallAgain
    \/ CallVariant
    \/ Stage
    \/ Return
    \/ Keep
    \/ Discard

Spec == Init /\ [][Next]_vars

---------------------------------------------------------------------------
(* The database and the handlers of main that save to it and calculate from it *)
(* A helper whose statement raises returns without conn.close(): its         *)
(* transaction is rolled back when the connection object is collected, which *)
(* the model takes as done before the next statement on the file.            *)

MaxSaves == 2
MaxRuns == 3

\* the number of throws and of stages the equipment tab is set to
UiCount == MaxMapped

\* lines 618-649: throw t of throws_local; v selects one of two sets of percentages
UiThrow(t, v) ==
    [throw_id |-> t, throw_number |-> t, bore_m |-> 80, clearance_m |-> 2,
     VVCP |-> IF v = 1 THEN 90000 ELSE 0,
     SACE |-> (10 * t + 50 * (v - 1)) * Scale,
     SAHE |-> 60000]

\* lines 651-660: stage_to_throw, None or a throw number for each stage
NoneMapping == [s \in 1..UiCount |-> MapNone]
SameMapping == [s \in 1..UiCount |-> MapId(s)]
CrossMapping == [s \in 1..UiCount |-> MapId(UiCount + 1 - s)]

\* lines 603-674: what the equipment tab holds when 'save configuration' is pressed
UiConfig(v, mp) ==
    [kind |-> "config", rpm |-> 900000, stroke_m |-> 120,
     throws |-> [t \in 1..UiCount |-> UiThrow(t, v)],
     stage_to_throw |-> mp,
     actuator |-> [power_available_kW |-> 250000, derate_percent |-> 5000,
                   air_cooler_fraction |-> 25000]]

\* the configurations a session saves
UiConfigs == { UiConfig(1, NoneMapping), UiConfig(1, SameMapping), UiConfig(2, CrossMapping) }

\* lines 276-296: the frame, throws, mapping and actuator of insert_example_data
ExampleConfig ==
    [kind |-> "example", rpm |-> 900000, stroke_m |-> 120,
     throws |-> << [throw_id |-> 1, throw_number |-> 1, bore_m |-> 80, clearance_m |-> 2,
                    VVCP |-> 900, SACE |-> 800, SAHE |-> 600],
                   [throw_id |-> 2, throw_number |-> 2, bore_m |-> 80, clearance_m |-> 2,
                    VVCP |-> 920, SACE |-> 850, SAHE |-> 650],
                   [throw_id |-> 3, throw_number |-> 3, bore_m |-> 80, clearance_m |-> 2,
                    VVCP |-> 940, SACE |-> 880, SAHE |-> 680] >>,
     stage_to_throw |-> << MapId(1), MapId(2), MapId(3) >>,
     actuator |-> [power_available_kW |-> 250000, derate_percent |-> 5000,
                   air_cooler_fraction |-> 25000]]

\* lines 264-267: the components insert_example_data saves, in its order
ExampleComponents ==
    << [name |-> "CH4", molecular_weight |-> 16040],
       [name |-> "C2H6", molecular_weight |-> 30070],
       [name |-> "CO2", molecular_weight |-> 44010],
       [name |-> "N2", molecular_weight |-> 28020] >>

\* lines 271-274: the mole fractions of the example mixture, in the same order
ExampleFractions == << 900, 50, 30, 20 >>

\* lines 69 and 172: the column name of gas_component is UNIQUE, so a name is stored
\* once
HasComponent(tbl, name) == \E k \in 1..Len(tbl) : tbl[k].name = name

\* lines 174-175: SELECT id FROM gas_component WHERE name = ?, fetchone
ComponentId(tbl, name) == tbl[CHOOSE k \in 1..Len(tbl) : tbl[k].name = name].id

\* lines 195-199 and 270-275: the rows save_gas_mixture inserts for the example
\* mixture, one for each component id it was given
MixtureRows(mixture_id, component_ids) ==
    [k \in 1..Len(component_ids) |->
        [mixture_id |-> mixture_id, component_id |-> component_ids[k],
         mole_fraction |-> ExampleFractions[k]]]

\* lines 88 and 196-199: the primary key (mixture_id, component_id) of
\* gas_mixture_component rejects a row of rows
KeyTaken(rows) ==
    \E j, k \in 1..Len(rows) :
        /\ j < k
        /\ rows[j].mixture_id = rows[k].mixture_id
        /\ rows[j].component_id = rows[k].component_id

\* lines 204-211: the row save_frame inserts
FrameRow(cfg) == [rpm |-> cfg.rpm, stroke_m |-> cfg.stroke_m, n_throws |-> Len(cfg.throws)]

\* lines 213-225: the rows save_throws inserts; the throw_id of the payload is not stored
ThrowRows(frame_id, throws) ==
    [k \in 1..Len(throws) |->
        [frame_id |-> frame_id, throw_number |-> throws[k].throw_number,
         bore_m |-> throws[k].bore_m, clearance_m |-> throws[k].clearance_m,
         VVCP |-> throws[k].VVCP, SACE |-> throws[k].SACE, SAHE |-> throws[k].SAHE]]

\* lines 236-237: SELECT id FROM stage WHERE stage_number = ?, fetchone: the first row
StageId(stg, st_num) ==
    CHOOSE k \in 1..Len(stg) :
        /\ stg[k].stage_number = st_num
        /\ \A j \in 1..(k - 1) : stg[j].stage_number # st_num

\* line 239: the primary key (stage_id, throw_id) of stage_throw rejects the row
PairTaken(st, stage_id, throw_id) ==
    \E r \in 1..Len(st) : st[r] = [stage_id |-> stage_id, throw_id |-> throw_id]

RECURSIVE SaveStageMapping(_, _, _, _)
\* lines 227-241: save_stage_mapping from item s of the mapping on.  stage has no
\* unique column, so INSERT OR IGNORE always inserts; ok is FALSE when the INSERT
\* into stage_throw raised IntegrityError, and then nothing of the call is committed
SaveStageMapping(stg, st, stage_mapping, s) ==
    IF s > Len(stage_mapping) THEN [stage |-> stg, stage_throw |-> st, ok |-> TRUE]
    ELSE LET stg1 == Append(stg, [stage_number |-> s])
             stage_id == StageId(stg1, s)
             throw_id == stage_mapping[s]
         IN  IF throw_id.kind = "none"
             THEN SaveStageMapping(stg1, st, stage_mapping, s + 1)
             ELSE IF PairTaken(st, stage_id, throw_id.ids[1])
             THEN [stage |-> stg, stage_throw |-> st, ok |-> FALSE]
             ELSE SaveStageMapping(stg1,
                      Append(st, [stage_id |-> stage_id, throw_id |-> throw_id.ids[1]]),
                      stage_mapping, s + 1)

\* the variables of the calculator call that a handler step on the database leaves alone
callvars == <<pc, err, params, arg, m_dot, n, PR_base, P_in_bar, T_in_K, total_W_kW,
              throws_by_id, i, SACE, VVCP, SAHE, stage_details, outputs, mem>>

\* the script runs of the other sessions
Others(s) == Sessions \ {s}

\* the handlers that have called save_frame or are about to
SavesAhead ==
    Cardinality({ t \in Sessions :
                    \/ hpc[t] \in {"save_gas_component", "save_gas_mixture", "save_frame"}
                    \/ /\ hpc[t] = "init_db"
                       /\ local[t].after \in {"save_gas_component", "save_frame"} })

\* lines 63 and 165: sqlite3.connect opens the file, and creates an empty one where
\* none is
Connected == [file EXCEPT !.exists = TRUE]

\* the file holds the table name
FileHas(name) == file.exists /\ Has(file.made, name)

\* what the last save handler was given and how it ended
Saved(cfg, e) ==
    [kind |-> cfg.kind, throws |-> cfg.throws, stage_to_throw |-> cfg.stage_to_throw,
     complete |-> e = "none", err |-> e]

\* the script run of session s ends, with the exception e or with none
Ends(s, e) ==
    /\ hpc' = [hpc EXCEPT ![s] = "idle"]
    /\ herr' = [herr EXCEPT ![s] = e]
    /\ local' = [local EXCEPT ![s] = IdleLocal]

\* the step of session s goes on to the step next
GoesOn(s, next) ==
    /\ hpc' = [hpc EXCEPT ![s] = next]
    /\ UNCHANGED herr

\* a statement of a save handler raises OperationalError: no such table on a file
\* without the table, attempt to write a readonly database on a connection whose
\* file was removed after the connect, and then no file is created
SaveFailsNoTable(s) ==
    /\ \E f \in {file, Connected} : file' = f
    /\ Ends(s, "OperationalError")
    /\ ui' = Saved(local[s].cfg, "OperationalError")
    /\ UNCHANGED <<tables, overlap, runs, callvars>>

\* the first step of the handler of a button, "idle" where none is pressed
FirstStep(button) ==
    CASE button = "none" -> "idle"
      [] button = "save" -> "save_frame"
      [] button = "example" -> "save_gas_component"
      [] button = "reset" -> "reset_exists"
      [] button = "calc" -> "calc_frame"

\* lines 495-500 and 63: a script run of session s starts, with the button pressed
\* and the widget values cfg, unit and n_stages, and init_db connects
Rerun(s, button, cfg, unit, n_stages) ==
    /\ hpc[s] = "idle"
    /\ button # "none" => runs < MaxRuns
    /\ button \in {"save", "example"} => Len(frame) + SavesAhead < MaxSaves
    /\ file' = Connected
    /\ hpc' = [hpc EXCEPT ![s] = "init_db"]
    /\ herr' = [herr EXCEPT ![s] = "none"]
    /\ local' = [local EXCEPT ![s] = [IdleLocal EXCEPT !.after = FirstStep(button),
                                                      !.cfg = cfg, !.unit = unit,
                                                      !.n_stages = n_stages]]
    /\ overlap' = (overlap \/ \E t \in Others(s) : hpc[t] # "idle")
    /\ runs' = IF button = "none" THEN runs ELSE runs + 1
    /\ UNCHANGED <<tables, ui, callvars>>

\* lines 66-163: the next statement of init_db that does something.  CREATE TABLE IF
\* NOT EXISTS of a table the file holds changes nothing; of the first table it lacks,
\* it creates the table, committed on its own; with all tables there, init_db
\* returns and the run goes to its handler.  On a file removed since the connect the
\* statements find the tables they found before, and a CREATE raises
\* OperationalError (attempt to write a readonly database)
InitDb(s) ==
    /\ hpc[s] = "init_db"
    /\ IF local[s].conn.live
       THEN IF file.made < Len(TableOrder)
            THEN /\ file' = [file EXCEPT !.made = @ + 1]
                 /\ UNCHANGED <<hpc, herr, local>>
            ELSE /\ IF local[s].after = "idle" THEN Ends(s, "none")
                    ELSE GoesOn(s, local[s].after) /\ UNCHANGED local
                 /\ UNCHANGED file
       ELSE /\ IF local[s].conn.made < Len(TableOrder) THEN Ends(s, "OperationalError")
               ELSE IF local[s].after = "idle" THEN Ends(s, "none")
               ELSE /\ GoesOn(s, local[s].after)
                    /\ local' = [local EXCEPT ![s].conn = Live]
            /\ UNCHANGED file
    /\ UNCHANGED <<tables, overlap, runs, ui, callvars>>

\* lines 169-177, called at lines 264-267: the next save_gas_component of
\* insert_example_data.  INSERT OR IGNORE takes the next id of the counter and stores
\* no row when the name is there; the id returned is the id of the row of that name
SaveGasComponent(s) ==
    /\ hpc[s] = "save_gas_component"
    /\ IF ~FileHas("gas_component") THEN SaveFailsNoTable(s)
       ELSE LET c == ExampleComponents[Len(local[s].component_ids) + 1]
                id == sqlite_sequence + 1
                tbl == IF HasComponent(gas_component, c.name) THEN gas_component
                       ELSE Append(gas_component,
                                   [id |-> id, name |-> c.name,
                                    molecular_weight |-> c.molecular_weight])
            IN  /\ gas_component' = tbl
                /\ sqlite_sequence' = id
                /\ local' = [local EXCEPT ![s].component_ids =
                                                Append(@, ComponentId(tbl, c.name))]
                /\ GoesOn(s, IF Len(local[s].component_ids) + 1 < Len(ExampleComponents)
                             THEN "save_gas_component" ELSE "save_gas_mixture")
                /\ UNCHANGED <<gas_mixture, gas_mixture_component, frame, throw, stage,
                               stage_throw, actuator, file, overlap, runs, ui, callvars>>

\* lines 187-202, called at lines 270-275: save_gas_mixture, with the ids the four
\* save_gas_component returned.  An IntegrityError ends the handler: the rows of this
\* call are not committed, save_frame is not reached
SaveGasMixture(s) ==
    /\ hpc[s] = "save_gas_mixture"
    /\ IF ~FileHas("gas_mixture_component") THEN SaveFailsNoTable(s)
       ELSE LET mixture_id == Len(gas_mixture) + 1
                rows == gas_mixture_component
                            \o MixtureRows(mixture_id, local[s].component_ids)
            IN  /\ IF KeyTaken(rows)
                   THEN /\ Ends(s, "IntegrityError")
                        /\ ui' = Saved(local[s].cfg, "IntegrityError")
                        /\ UNCHANGED <<gas_mixture, gas_mixture_component>>
                   ELSE /\ gas_mixture' = Append(gas_mixture, [name |-> "Mistura_exemplo"])
                        /\ gas_mixture_component' = rows
                        /\ local' = [local EXCEPT ![s].mixture_id = mixture_id]
                        /\ GoesOn(s, "save_frame")
                        /\ UNCHANGED ui
                /\ UNCHANGED <<gas_component, sqlite_sequence, frame, throw, stage,
                               stage_throw, actuator, file, overlap, runs, callvars>>

\* lines 204-211, called at line 278 or 678: save_frame
SaveFrame(s) ==
    /\ hpc[s] = "save_frame"
    /\ IF ~FileHas("frame") THEN SaveFailsNoTable(s)
       ELSE /\ frame' = Append(frame, FrameRow(local[s].cfg))
            /\ local' = [local EXCEPT ![s].frame_id = Len(frame) + 1]
            /\ GoesOn(s, "save_throws")
            /\ UNCHANGED <<gastables, throw, stage, stage_throw, actuator, file, overlap,
                           runs, ui, callvars>>

\* lines 213-225, called at line 285 or 691: save_throws, with the frame_id that
\* save_frame returned
SaveThrows(s) ==
    /\ hpc[s] = "save_throws"
    /\ IF ~FileHas("throw") THEN SaveFailsNoTable(s)
       ELSE /\ throw' = throw \o ThrowRows(local[s].frame_id, local[s].cfg.throws)
            /\ GoesOn(s, "save_stage_mapping")
            /\ UNCHANGED <<gastables, frame, stage, stage_throw, actuator, file, local,
                           overlap, runs, ui, callvars>>

\* lines 234-239: the tables save_stage_mapping needs: stage, and stage_throw for
\* the first stage that has a throw
MappingTables(stage_mapping) ==
    IF \E k \in DOMAIN stage_mapping : stage_mapping[k].kind # "none"
    THEN "stage_throw" ELSE "stage"

\* lines 227-241, called at line 293 or 694: save_stage_mapping.  An IntegrityError
\* ends the handler: the rows of this call are not committed, save_actuator is not
\* reached
SaveMapping(s) ==
    /\ hpc[s] = "save_stage_mapping"
    /\ IF ~FileHas(MappingTables(local[s].cfg.stage_to_throw)) THEN SaveFailsNoTable(s)
       ELSE LET res == SaveStageMapping(stage, stage_throw, local[s].cfg.stage_to_throw, 1)
            IN  /\ IF res.ok
                   THEN /\ stage' = res.stage
                        /\ stage_throw' = res.stage_throw
                        /\ GoesOn(s, "save_actuator")
                        /\ UNCHANGED <<local, ui>>
                   ELSE /\ Ends(s, "IntegrityError")
                        /\ ui' = Saved(local[s].cfg, "IntegrityError")
                        /\ UNCHANGED <<stage, stage_throw>>
                /\ UNCHANGED <<gastables, frame, throw, actuator, file, overlap, runs,
                               callvars>>

\* lines 243-249, called at line 296 or 697: save_actuator, the last part of a save;
\* insert_example_data goes on to save_process_inputs
SaveActuator(s) ==
    /\ hpc[s] = "save_actuator"
    /\ IF ~FileHas("actuator") THEN SaveFailsNoTable(s)
       ELSE /\ actuator' = Append(actuator, local[s].cfg.actuator)
            /\ ui' = Saved(local[s].cfg, "none")
            /\ IF local[s].cfg.kind = "example"
               THEN GoesOn(s, "example_process") /\ UNCHANGED local
               ELSE Ends(s, "none")
            /\ UNCHANGED <<gastables, frame, throw, stage, stage_throw, file, overlap, runs,
                           callvars>>

\* lines 251-257, called at line 299: save_process_inputs, on a table the model
\* does not hold
ExampleProcess(s) ==
    /\ hpc[s] = "example_process"
    /\ IF FileHas("process_inputs")
       THEN Ends(s, "none") /\ UNCHANGED file
       ELSE /\ \E f \in {file, Connected} : file' = f
            /\ Ends(s, "OperationalError")
    /\ UNCHANGED <<tables, overlap, runs, ui, callvars>>

\* line 518: os.path.exists(DB_PATH)
ResetExists(s) ==
    /\ hpc[s] = "reset_exists"
    /\ GoesOn(s, IF file.exists THEN "reset_remove" ELSE "reset_init")
    /\ UNCHANGED <<tables, file, local, overlap, runs, ui, callvars>>

\* the file as a connection opened before it was removed goes on reading it
Kept == [live |-> FALSE, made |-> file.made, throw |-> throw, stage |-> stage,
         stage_throw |-> stage_throw, actuator |-> actuator]

\* the steps at which a session holds a connection from one statement to the next
Holding == {"init_db", "calc_throws", "calc_mappings", "calc_call"}

\* line 519: os.remove(DB_PATH) raises FileNotFoundError when another session has
\* removed the file since line 518.  The connection of an init_db or of a calculate
\* handler stays on the removed file
ResetRemove(s) ==
    /\ hpc[s] = "reset_remove"
    /\ IF ~file.exists
       THEN /\ Ends(s, "FileNotFoundError")
            /\ UNCHANGED <<tables, file, overlap, runs, ui, callvars>>
       ELSE /\ file' = NoFile
            /\ gas_component' = <<>>
            /\ sqlite_sequence' = 0
            /\ gas_mixture' = <<>>
            /\ gas_mixture_component' = <<>>
            /\ frame' = <<>>
            /\ throw' = <<>>
            /\ stage' = <<>>
            /\ stage_throw' = <<>>
            /\ actuator' = <<>>
            /\ ui' = NoSave
            /\ hpc' = [hpc EXCEPT ![s] = "reset_init"]
            /\ local' = [t \in Sessions |->
                            IF hpc[t] \in Holding /\ local[t].conn.live
                            THEN [local[t] EXCEPT !.conn = Kept]
                            ELSE local[t]]
            /\ UNCHANGED <<herr, overlap, runs, callvars>>

\* lines 520 and 63: init_db is called and connects; after it the run has no
\* handler left
ResetInit(s) ==
    /\ hpc[s] = "reset_init"
    /\ file' = Connected
    /\ GoesOn(s, "init_db")
    /\ local' = [local EXCEPT ![s].after = "idle", ![s].conn = Live]
    /\ UNCHANGED <<tables, overlap, runs, ui, callvars>>

\* the file the connection of session s reads
View(s) ==
    IF local[s].conn.live
    THEN [live |-> TRUE, made |-> file.made, throw |-> throw, stage |-> stage,
          stage_throw |-> stage_throw, actuator |-> actuator]
    ELSE local[s].conn

RECURSIVE ThrowsList(_, _, _)
\* lines 709-711 and 728-732: the first k rows of the table throw that belong to
\* frame_id, as the dicts of throws_list; throw_id is the id of the row
ThrowsList(tbl, frame_id, k) ==
    IF k = 0 THEN <<>>
    ELSE LET rest == ThrowsList(tbl, frame_id, k - 1)
         IN  IF tbl[k].frame_id = frame_id
             THEN Append(rest, [throw_id |-> k, throw_number |-> tbl[k].throw_number,
                                bore_m |-> tbl[k].bore_m,
                                clearance_m |-> tbl[k].clearance_m,
                                VVCP |-> tbl[k].VVCP, SACE |-> tbl[k].SACE,
                                SAHE |-> tbl[k].SAHE])
             ELSE rest

RECURSIVE LoadStageMapping(_, _, _)
\* lines 712-719: stage_mapping from the first k rows of stage_throw, of every frame;
\* a later row of a stage number replaces an earlier one
LoadStageMapping(stg, st, k) ==
    IF k = 0 THEN <<>>
    ELSE LET m == LoadStageMapping(stg, st, k - 1)
             sn == stg[st[k].stage_id].stage_number
         IN  [x \in DOMAIN m \cup {sn} |->
                 IF x = sn THEN MapId(st[k].throw_id) ELSE m[x]]

\* lines 720-726: the last actuator row, or the defaults
LoadActuator(tbl) ==
    IF tbl # <<>>
    THEN LET act == tbl[Len(tbl)]
         IN  [power_kW |-> act.power_available_kW, derate |-> act.derate_percent,
              air_cooler |-> act.air_cooler_fraction]
    ELSE [power_kW |-> 200000, derate |-> 0, air_cooler |-> 0]

\* lines 734-752: calc_params, from what the handler has read and the fixed process
\* numbers
SavedParams(l, act) ==
    LET numbers == [MainNumbers EXCEPT !.unit_system = l.unit, !.n_stages = l.n_stages]
    IN  [ WithThrows(numbers, l.throws_list, l.stage_mapping)
          EXCEPT !.rpm = l.row.rpm, !.stroke_m = l.row.stroke_m, !.actuator = act ]

\* lines 703-706 and 784: the connection of the calculate handler and its SELECT of
\* the last frame; with no frame stored the handler warns and calls nothing
CalcFrame(s) ==
    /\ hpc[s] = "calc_frame"
    /\ file' = Connected
    /\ IF ~FileHas("frame") THEN Ends(s, "OperationalError")
       ELSE IF frame = <<>> THEN Ends(s, "none")
       ELSE /\ local' = [local EXCEPT ![s].frame_id = Len(frame),
                                      ![s].row = frame[Len(frame)]]
            /\ GoesOn(s, "calc_throws")
    /\ UNCHANGED <<tables, overlap, runs, ui, callvars>>

\* lines 710-711 and 728-732: the SELECT of the throws of that frame
CalcThrows(s) ==
    /\ hpc[s] = "calc_throws"
    /\ IF ~Has(View(s).made, "throw") THEN Ends(s, "OperationalError")
       ELSE /\ local' = [local EXCEPT ![s].throws_list =
                           ThrowsList(View(s).throw, local[s].frame_id,
                                      Len(View(s).throw))]
            /\ GoesOn(s, "calc_mappings")
    /\ UNCHANGED <<tables, file, overlap, runs, ui, callvars>>

\* lines 713-719: the SELECT of stage_throw and, for each row, of the number of its
\* stage, which no statement of the program changes once the row is stored
CalcMappings(s) ==
    /\ hpc[s] = "calc_mappings"
    /\ IF ~Has(View(s).made, "stage_throw") THEN Ends(s, "OperationalError")
       ELSE /\ local' = [local EXCEPT ![s].stage_mapping =
                           LoadStageMapping(View(s).stage, View(s).stage_throw,
                                            Len(View(s).stage_throw))]
            /\ GoesOn(s, "calc_call")
    /\ UNCHANGED <<tables, file, overlap, runs, ui, callvars>>

\* lines 721-755: the SELECT of the actuator, calc_params, and the call, which
\* works on its own locals to its end
CalcCall(s) ==
    /\ hpc[s] = "calc_call"
    /\ IF ~Has(View(s).made, "actuator")
       THEN /\ Ends(s, "OperationalError")
            /\ UNCHANGED callvars
       ELSE /\ pc = "idle"
            /\ LET p == SavedParams(local[s], LoadActuator(View(s).actuator))
               IN  /\ arg' = p
                   /\ Entry(p)
            /\ hpc' = [hpc EXCEPT ![s] = "calc_run"]
            /\ local' = [local EXCEPT ![s] = IdleLocal]
            /\ UNCHANGED herr
    /\ UNCHANGED <<tables, file, overlap, runs, ui>>

NextDB ==
    \/ \E s \in Sessions :
          \/ Rerun(s, "none", NoConfig, "SI", 0)
          \/ \E cfg \in UiConfigs : Rerun(s, "save", cfg, "SI", 0)
          \/ Rerun(s, "example", ExampleConfig, "SI", 0)
          \/ Rerun(s, "reset", NoConfig, "SI", 0)
          \/ \E unit \in UNIT_OPTIONS : \E n_stages \in 1..MaxStages :
                Rerun(s, "calc", NoConfig, unit, n_stages)
          \/ InitDb(s)
          \/ SaveGasComponent(s)
          \/ SaveGasMixture(s)
          \/ SaveFrame(s)
          \/ SaveThrows(s)
          \/ SaveMapping(s)
          \/ SaveActuator(s)
          \/ ExampleProcess(s)
          \/ ResetExists(s)
          \/ ResetRemove(s)
          \/ ResetInit(s)
          \/ CalcFrame(s)
          \/ CalcThrows(s)
          \/ CalcMappings(s)
          \/ CalcCall(s)
    \/ Stage
    \/ Return
    \/ Discard

SpecDB == Init /\ [][NextDB]_vars

---------------------------------------------------------------------------
(* Properties *)

Returned == pc = "done"
Running == pc \in {"loop", "done"}

\* x == y of two entries of stage_details
SameStage(x, y) ==
    /\ x.stage = y.stage
    /\ Eq(x.P_in_bar, y.P_in_bar)
    /\ Eq(x.P_out_bar, y.P_out_bar)
    /\ Eq(x.PR, y.PR)
    /\ Eq(x.T_in_C, y.T_in_C)
    /\ Eq(x.T_out_C, y.T_out_C)
    /\ x.poly_eff = y.poly_eff
    /\ x.isentropic_eff = y.isentropic_eff
    /\ Eq(x.shaft_power_kW, y.shaft_power_kW)

\* x == y of two stage_details lists
SameStages(x, y) ==
    /\ Len(x) = Len(y)
    /\ \A k \in 1..Len(x) : SameStage(x[k], y[k])

\* x == y of two stages of the 'a Ariel7 compatible' block
SameArielStage(x, y) ==
    /\ x.stage_number = y.stage_number
    /\ Eq(x.P_in_bar, y.P_in_bar)
    /\ Eq(x.P_out_bar, y.P_out_bar)
    /\ Eq(x.PR, y.PR)
    /\ Eq(x.T_in_C, y.T_in_C)
    /\ Eq(x.T_out_C, y.T_out_C)
    /\ x.polytropic_efficiency = y.polytropic_efficiency
    /\ x.isentropic_efficiency = y.isentropic_efficiency
    /\ Eq(x.shaft_power_kW, y.shaft_power_kW)

\* a == b of two reports
SameReport(a, b) ==
    /\ a.frame_rpm = b.frame_rpm
    /\ Eq(a.mass_flow_kg_s, b.mass_flow_kg_s)
    /\ Eq(a.inlet_pressure_bar, b.inlet_pressure_bar)
    /\ Eq(a.inlet_temperature_C, b.inlet_temperature_C)
    /\ a.n_stages = b.n_stages
    /\ Eq(a.total_shaft_power_kW, b.total_shaft_power_kW)
    /\ SameStages(a.stage_details, b.stage_details)
    /\ a.ariel7_compatible.frame_rpm = b.ariel7_compatible.frame_rpm
    /\ Len(a.ariel7_compatible.stages) = Len(b.ariel7_compatible.stages)
    /\ \A k \in 1..Len(a.ariel7_compatible.stages) :
          SameArielStage(a.ariel7_compatible.stages[k], b.ariel7_compatible.stages[k])
    /\ Eq(a.ariel7_compatible.total_shaft_power_kW,
          b.ariel7_compatible.total_shaft_power_kW)

\* the process inputs the data model calls valid: positive flow, pressure, temperature
\* and pressure ratio, and at least one stage
ValidProcess(p) ==
    /\ p.mass_flow_kg_s > 0
    /\ p.inlet_pressure_pa > 0
    /\ p.inlet_temperature_K > 0
    /\ p.PR_total > 0
    /\ p.n_stages >= 1

\* the stage count the claims expect for a supplied n_stages
ExpectedStages(k) == IF k >= 1 THEN k ELSE 1

PRTolerance == Scale \div 100

RECURSIVE SumPower(_, _)
\* shaft_power_kW summed over the first k entries, from the left
SumPower(sd, k) == IF k = 0 THEN R(0) ELSE Add(SumPower(sd, k - 1), sd[k].shaft_power_kW)

\* stage s has no throw assigned in the mapping the caller passed
Unassigned(s) ==
    \/ s \notin DOMAIN arg.stage_mapping
    \/ arg.stage_mapping[s].kind \in {"absent", "none"}

RECURSIVE SumField(_, _, _)
SumField(byid, ids, f) ==
    IF ids = <<>> THEN 0 ELSE byid[Head(ids)][f] + SumField(byid, Tail(ids), f)

\* arithmetic mean over the throws named in ids of one percentage
Mean(byid, ids, f) == DivFx(SumField(byid, ids, f), Len(ids) * Scale)

\* C1: the report holds n_stages entries (1 when n_stages <= 0), numbered 1, 2, ...
\* in ascending order without gap or repeat, and its n_stages field is that count.
C1_StageCount ==
    Returned =>
        LET sd == outputs.stage_details
        IN  /\ Len(sd) = ExpectedStages(arg.n_stages)
            /\ \A k \in 1..Len(sd) : sd[k].stage = k
            /\ outputs.n_stages = Len(sd)

C1_Witness ==
    /\ Returned
    /\ arg.n_stages < 0
    /\ Len(outputs.stage_details) = 1
    /\ outputs.n_stages = 1

\* C2: the inlet temperature of stage 1 is the process inlet temperature supplied,
\* and the inlet temperature of every stage s > 1 is exactly the outlet temperature
\* of stage s - 1 (stated for valid process inputs).
C2_TemperatureChain ==
    (Returned /\ ValidProcess(arg)) =>
        LET sd == outputs.stage_details
        IN  /\ Eq(sd[1].T_in_C, Sub(R(arg.inlet_temperature_K), R(KelvinOffset)))
            /\ \A s \in 2..Len(sd) : Eq(sd[s].T_in_C, sd[s - 1].T_out_C)

\* C3: every reported isentropic efficiency lies in [0.65, 0.92]; a raw value above
\* 0.92 is reported as 0.92 and one below 0.65 as 0.65, whatever the percentages.
C3_EfficiencyBound ==
    Running =>
        /\ \A k \in 1..Len(stage_details) :
              /\ stage_details[k].isentropic_eff >= EtaMin
              /\ stage_details[k].isentropic_eff <= EtaMax
        /\ Len(stage_details) >= 1 =>
              LET raw == EtaRaw(SACE, VVCP, SAHE)
                  eta == stage_details[Len(stage_details)].isentropic_eff
              IN  /\ raw > EtaMax => eta = EtaMax
                  /\ raw < EtaMin => eta = EtaMin
                  /\ (raw >= EtaMin /\ raw <= EtaMax) => eta = raw

C3_Witness ==
    /\ Running
    /\ Len(stage_details) = 2
    /\ arg.stage_mapping[1] = MapId(1)
    /\ Len(arg.throws) = 2
    /\ arg.throws[1].VVCP > Hundred
    /\ arg.throws[1].SACE < 0
    /\ stage_details[1].isentropic_eff = EtaMin
    /\ SACE > Hundred
    /\ EtaRaw(SACE, VVCP, SAHE) > EtaMax
    /\ stage_details[2].isentropic_eff = EtaMax

\* C4: all stages carry the same stage pressure ratio, each outlet pressure is the
\* inlet pressure times that ratio, and the ratio raised to the stage count is the
\* total pressure ratio supplied (to the rounding of the arithmetic).
C4_PressureRatio ==
    Returned =>
        LET sd == outputs.stage_details
        IN  /\ \A k \in 1..Len(sd) :
                  /\ Eq(sd[k].PR, sd[1].PR)
                  /\ Eq(sd[k].P_out_bar, Mul(sd[k].P_in_bar, sd[k].PR))
            /\ ~sd[1].PR.cx =>
                  Abs(PowInt(sd[1].PR.v, outputs.n_stages) - arg.PR_total) <= PRTolerance

C4_Witness ==
    /\ Returned
    /\ arg.PR_total > Scale
    /\ Len(outputs.stage_details) = MaxStages
    /\ outputs.stage_details[1].PR.v > Scale
    /\ outputs.stage_details[MaxStages].P_out_bar.v > outputs.stage_details[1].P_out_bar.v

\* C5: total_shaft_power_kW is the plain sum of shaft_power_kW over stage_details,
\* and the total of the 'a Ariel7 compatible' block is the same value.
C5_TotalPower ==
    Returned =>
        /\ Eq(outputs.total_shaft_power_kW,
              SumPower(outputs.stage_details, Len(outputs.stage_details)))
        /\ Eq(outputs.ariel7_compatible.total_shaft_power_kW, outputs.total_shaft_power_kW)

C5_Witness ==
    /\ Returned
    /\ Len(outputs.stage_details) >= 2
    /\ ~outputs.total_shaft_power_kW.cx
    /\ \A k \in 1..Len(outputs.stage_details) : outputs.stage_details[k].shaft_power_kW.v > 0
    /\ outputs.total_shaft_power_kW.v > outputs.stage_details[1].shaft_power_kW.v

\* C6: a stage mapped to several throws gets the efficiency of the arithmetic mean of
\* their VVCP, SACE and SAHE; a one-element collection gives the result of its throw.
C6_MeanOfThrows ==
    Running =>
        \A k \in 1..Len(stage_details) :
            LET tid == MappingGet(arg.stage_mapping, k)
            IN  (tid.kind = "tuple" /\ \A j \in 1..Len(tid.ids) : tid.ids[j] \in DOMAIN throws_by_id)
                => stage_details[k].isentropic_eff =
                       EtaIsent(Mean(throws_by_id, tid.ids, "SACE"),
                                Mean(throws_by_id, tid.ids, "VVCP"),
                                Mean(throws_by_id, tid.ids, "SAHE"))

\* C7: a stage with no throw assigned (absent key or None) takes VVCP, SACE and SAHE
\* as 0 and has the floor efficiency 0.65; with an empty mapping, every stage.
C7_UnassignedFloor ==
    Running =>
        /\ \A k \in 1..Len(stage_details) :
              Unassigned(k) => stage_details[k].isentropic_eff = EtaMin
        /\ (Len(stage_details) >= 1 /\ Unassigned(Len(stage_details)))
              => (SACE = 0 /\ VVCP = 0 /\ SAHE = 0)

C7_Witness ==
    /\ Returned
    /\ Len(arg.throws) > 0
    /\ arg.stage_mapping[1].kind = "id"
    /\ arg.stage_mapping[2].kind = "none"
    /\ Len(outputs.stage_details) = MaxStages
    /\ outputs.stage_details[1].isentropic_eff > EtaMin
    /\ outputs.stage_details[2].isentropic_eff = EtaMin
    /\ outputs.stage_details[MaxStages].isentropic_eff = EtaMin

\* C8: the call never ends in an error, for zero and negative process numbers and
\* stage counts as well: it is in its loop within the stage count, or has returned.
C8_NoError ==
    /\ pc # "error"
    /\ err = "none"
    /\ pc = "loop" => (i >= 1 /\ i <= n + 1)

C8_Witness ==
    /\ Returned
    /\ arg.n_stages = 0
    /\ arg.PR_total = 0
    /\ arg.mass_flow_kg_s < 0
    /\ arg.inlet_pressure_pa < 0
    /\ arg.inlet_temperature_K < 0

\* C9: a call leaves the params dict as the caller passed it, and a call with the
\* params of an earlier call, whatever was called in between, returns an equal report.
C9_Pure ==
    /\ Running => params = arg
    /\ (Returned /\ mem # NoMem) =>
          (mem[1].params = arg => SameReport(outputs, mem[1].outputs))

C9_Witness ==
    /\ Returned
    /\ mem # NoMem
    /\ mem[1].params = arg
    /\ outputs = mem[1].outputs
    /\ Len(outputs.stage_details) = MaxStages

\* C10: the report's inlet pressure is the inlet pressure supplied and its inlet
\* temperature is the inlet temperature supplied, not a later temperature of the
\* train (stated for valid process inputs in the unit system 'SI', in which the
\* supplied values are the ones the call reads).
C10_ReportInlet ==
    (Returned /\ arg.unit_system = "SI" /\ ValidProcess(arg)) =>
        /\ Eq(outputs.inlet_pressure_bar, R(PaToBar(arg.inlet_pressure_pa)))
        /\ Eq(outputs.inlet_temperature_C,
              Sub(R(arg.inlet_temperature_K), R(KelvinOffset)))

\* C11: for the same supplied inlet_pressure_pa and inlet_temperature_K, a call with
\* unit_system 'Metric' and a call with unit_system 'SI' return the same report: the
\* pressures, temperatures and powers are computed from the supplied values.
C11_UnitIndependent ==
    (Returned /\ mem # NoMem /\ arg \in UnitVariants(mem[1].params)) =>
        SameReport(outputs, mem[1].outputs)

\* C12: in every report the inlet pressure of stage 1 is the process inlet pressure
\* supplied, the inlet pressure of stage s is that pressure times PR_stage^(s-1), a
\* function of the supplied pressure, the stage ratio and the stage index alone and
\* so of neither the throw percentages nor the running temperature, and for every
\* stage k below the last the outlet pressure of stage k is the inlet pressure of
\* stage k + 1.
C12_StagePressures ==
    Returned =>
        LET sd == outputs.stage_details
            P == R(PaToBar(arg.inlet_pressure_pa))
        IN  /\ Eq(sd[1].P_in_bar, P)
            /\ \A s \in 1..Len(sd) :
                  Eq(sd[s].P_in_bar, TimesPower(P, sd[s].PR, s - 1))
            /\ \A k \in 1..(Len(sd) - 1) :
                  Eq(sd[k].P_out_bar, sd[k + 1].P_in_bar)

\* the efficiency the formula 0.65 + 0.15*SACE/100 - 0.05*VVCP/100 + 0.10*SAHE/100,
\* clamped to [0.65, 0.92], gives for the percentages of the throw th
FormulaEta(th) ==
    Max(EtaMin, Min(EtaMax,
        EtaBase + (EtaSACE * th.SACE - EtaVVCP * th.VVCP + EtaSAHE * th.SAHE) \div Hundred))

\* stage k is mapped to one throw id and the throws list has a throw with that id
MappedToPresent(k) ==
    LET tid == MappingGet(arg.stage_mapping, k)
    IN  /\ tid.kind = "id"
        /\ \E j \in 1..Len(arg.throws) : arg.throws[j].throw_id = tid.ids[1]

\* every stage of the call is mapped to the one throw with SACE 80, VVCP 90, SAHE 60
EveryStageScenario ==
    /\ arg.throws = << Throw(1, 90000, 80000, 60000) >>
    /\ \A k \in 1..n : MappingGet(arg.stage_mapping, k) = MapId(1)

\* C13: a stage mapped to one throw present in the throws list reports the clamped
\* formula value of that throw's percentages; with the throw SACE 80, VVCP 90,
\* SAHE 60 on every stage, every stage reports 0.785, which no clamp touched.
C13_EfficiencyFormula ==
    Running =>
        /\ \A k \in 1..Len(stage_details) :
              MappedToPresent(k) =>
                  stage_details[k].isentropic_eff =
                      FormulaEta(throws_by_id[MappingGet(arg.stage_mapping, k).ids[1]])
        /\ EveryStageScenario =>
              \A k \in 1..Len(stage_details) :
                  /\ stage_details[k].isentropic_eff = 785
                  /\ stage_details[k].isentropic_eff > EtaMin
                  /\ stage_details[k].isentropic_eff < EtaMax

C13_Witness ==
    /\ Returned
    /\ EveryStageScenario
    /\ Len(outputs.stage_details) = MaxStages
    /\ \A k \in 1..MaxStages : outputs.stage_details[k].isentropic_eff = 785

\* C14: a call whose params differ from those of an earlier call only in the bore and
\* clearance of the throws, in stroke_m or in the actuator record returns the same
\* stage_details and the same total_shaft_power_kW as that call.
C14_GeometryFree ==
    (Returned /\ mem # NoMem /\ arg \in GeometryVariants(mem[1].params)) =>
        /\ SameStages(outputs.stage_details, mem[1].outputs.stage_details)
        /\ Eq(outputs.total_shaft_power_kW, mem[1].outputs.total_shaft_power_kW)

C14_Witness ==
    /\ Returned
    /\ mem # NoMem
    /\ arg \in GeometryVariants(mem[1].params)
    /\ arg.stroke_m # mem[1].params.stroke_m
    /\ arg.actuator # mem[1].params.actuator
    /\ arg.throws[1].bore_m # mem[1].params.throws[1].bore_m
    /\ arg.throws[2].clearance_m # mem[1].params.throws[2].clearance_m
    /\ arg.stage_mapping = DirectMapping
    /\ Len(outputs.stage_details) = MaxStages
    /\ outputs.stage_details = mem[1].outputs.stage_details
    /\ outputs.total_shaft_power_kW.v > 0

\* stage k is mapped to one throw id that no entry of the throws list carries
UnknownThrow(k) ==
    LET tid == MappingGet(arg.stage_mapping, k)
    IN  /\ tid.kind = "id"
        /\ \A j \in 1..Len(arg.throws) : arg.throws[j].throw_id # tid.ids[1]

\* C17: a stage mapped to a throw id that is not in the throws list raises nothing
\* and is computed as an unassigned stage is: percentages 0, isentropic efficiency
\* 0.65; every other stage keeps the efficiency its own mapping entry gives it.
C17_UnknownThrow ==
    Running =>
        /\ \A k \in 1..Len(stage_details) :
              /\ UnknownThrow(k) =>
                    /\ stage_details[k].isentropic_eff = EtaMin
                    /\ stage_details[k].poly_eff = PolyBase
                    /\ err = "none"
              /\ MappedToPresent(k) =>
                    stage_details[k].isentropic_eff =
                        FormulaEta(throws_by_id[MappingGet(arg.stage_mapping, k).ids[1]])
              /\ Unassigned(k) => stage_details[k].isentropic_eff = EtaMin
        /\ (Len(stage_details) >= 1 /\ UnknownThrow(Len(stage_details)))
              => (SACE = 0 /\ VVCP = 0 /\ SAHE = 0)

C17_Witness ==
    /\ Returned
    /\ Len(arg.throws) = 2
    /\ MappedToPresent(1)
    /\ UnknownThrow(2)
    /\ arg.stage_mapping[2] = MapId(9)
    /\ Len(outputs.stage_details) = MaxStages
    /\ outputs.stage_details[1].isentropic_eff > EtaMin
    /\ outputs.stage_details[2].isentropic_eff = EtaMin
    /\ err = "none"

\* none of the handlers run so far has overlapped another: the sessions have taken
\* their turns one after the other
InTurn == ~overlap

\* the steps of a save handler that has stored a part and not yet all
MidSave == {"save_throws", "save_stage_mapping", "save_actuator"}

\* C15: in a calculation from saved data that follows a completed save, the handlers
\* having run one after the other, every stage the saved configuration mapped to a
\* throw has a stored throw id that resolves to a throw loaded for the last frame,
\* and is computed with the percentages of that throw of the saved configuration.
C15_SavedThrows ==
    (Running /\ InTurn /\ ui.kind # "none" /\ ui.complete) =>
        \A k \in 1..Len(stage_details) :
            (k <= Len(ui.stage_to_throw) /\ ui.stage_to_throw[k].kind = "id") =>
                /\ Resolves(MappingGet(arg.stage_mapping, k), throws_by_id)
                /\ stage_details[k].isentropic_eff =
                       FormulaEta(ui.throws[ui.stage_to_throw[k].ids[1]])

\* C16: the handlers having run one after the other, every save handler, whatever
\* was saved before, ends without a database error and stores all its parts: once
\* it is over each frame stored has its actuator row, and the last save is complete.
C16_SaveRepeatable ==
    (InTurn /\ \A s \in Sessions : hpc[s] \notin MidSave) =>
        /\ ui.err = "none"
        /\ ui.complete
        /\ Len(actuator) = Len(frame)

=============================================================================
